---- MODULE Spec2Model ----
(***************************************************************************)
(* A model of the memory layer of Gedo.h: MemoryBlock, the LinearAllocator *)
(* (arena) and MallocAllocator (heap), and the owning containers Array<T>  *)
(* and String built on them.                                               *)
(*                                                                         *)
(* Memory is a set of regions (one per arena, one per malloc'ed chunk),    *)
(* each a sequence of bytes placed at a numeric base address, so that the  *)
(* pointer comparisons of IsPointerInsideMemoryBlock are computed as the   *)
(* code computes them.                                                     *)
(***************************************************************************)
EXTENDS Integers, Sequences, FiniteSets, TLC

\* ------------------------------------------------------------- bounds
\* Byte capacity handed to CreateLinearAllocator for arena L1.
ArenaCapacity == 16
\* The request sizes the client of the allocators draws from.
SmallReq == 3
ScenarioReq == 10
\* Width of size_t in the model (stands for 64).
SizeBits == 8
\* How many chunks malloc hands out in one run.
MaxMallocs == 2
\* Containers on the heap: the chunks malloc can hand out, the count up to which
\* the user pushes, the size the user reserves and resizes to.
ContChunks == 3
MaxCount == 2
ContReq == 1
\* One Array growing: chunks, number of elements pushed, size reserved and resized to.
GrowChunks == 4
MaxPush == 17
GrowReq == 3
\* Containers and their allocators: the arena's capacity, the chunks malloc can
\* hand out, the count up to which the user pushes, the size the user reserves
\* and resizes to, the number of calls the user makes.
OwnArena == 8
OwnChunks == 3
OwnCount == 1
OwnReq == 1
OwnCalls == 5
\* Strings concatenated: the count up to which the user appends.
TextCount == 3
\* Strings split and rejoined: the chunks malloc can hand out and the length of
\* the longest string split.
SplitChunks == 9
SplitLen == 5
\* Files: the length of the longest file and the number of calls made.
FileLen == 2
FileCalls == 3
\* Sorting and searching: the length of the short arrays and of the long ones.
SortLen == 3
LongLen == 13
\* The arena under machine arithmetic: the caller also asks for 2^w - WideReq bytes.
WideReq == 6

SizeMod == 2 ^ SizeBits

LinearIds == {"L1"}
MallocIds == {"M1", "M2"}
Allocators == LinearIds \cup MallocIds
\* The region holding an arena's bytes; malloc'ed chunks are regions 1, 2, ...
ArenaRegion(l) == 0
ArenaRegions == {ArenaRegion(l) : l \in LinearIds}

\* The byte counts the caller asks an allocator for.
ReqSizes(a) ==
    IF a \in LinearIds
    THEN {0, ArenaCapacity - ScenarioReq, ScenarioReq, ArenaCapacity, ArenaCapacity + 1}
    ELSE {0, SmallReq}

\* ------------------------------------------------------------- memory
NULL == 0
NullBlock == [data |-> NULL, size |-> 0]

\* Distance between the base addresses of two regions: larger than any region.
Stride == 16 * (ArenaCapacity + 2)
Base(r) == (r + 1) * Stride
IsBase(p) == p % Stride = 0
RegionOf(p) == (p \div Stride) - 1

Zeros(n) == [i \in 1 .. n |-> 0]
\* What malloc returns: indeterminate bytes (here a non-zero pattern).
Garbage(n) == [i \in 1 .. n |-> 170]
\* The pattern a client writes into a block it holds: 1, 2, 3, ...
Pattern(n) == [i \in 1 .. n |-> i]

\* bytes written at offset off (0-based) of region contents m
Overwrite(m, off, bytes) ==
    [i \in 1 .. Len(m) |->
        IF i > off /\ i <= off + Len(bytes) THEN bytes[i - off] ELSE m[i]]

MemWrite(memory, p, bytes) ==
    IF Len(bytes) = 0 THEN memory
    ELSE LET r == RegionOf(p)
         IN  [memory EXCEPT ![r] = Overwrite(memory[r], p - Base(r), bytes)]

MemRead(memory, p, n) ==
    IF n = 0 THEN << >>
    ELSE LET r == RegionOf(p)
         IN  [i \in 1 .. n |-> memory[r][p - Base(r) + i]]

\* GEDO_MEMSET(block.data, 0, block.size)
ZeroNothing(memory, block) == memory
ZeroMemoryBlock(memory, block) == MemWrite(memory, block.data, Zeros(block.size))

\* ------------------------------------------------------------- range checks
IsPointerInsideMemoryBlock(ptr, block) ==
    LET begin == block.data
        end == block.data + block.size
    IN  ptr >= begin /\ ptr < end

IsMemoryBlockInside(big, small) ==
    /\ IsPointerInsideMemoryBlock(small.data, big)
    /\ IsPointerInsideMemoryBlock(small.data + small.size, big)

\* ------------------------------------------------------------- LinearAllocator
\* the test of AllocateMemoryBlock, in size_t arithmetic
LinearFitsNoBytes(offset, bytes, size) == offset <= size
LinearFits(offset, bytes, size) == ((offset + bytes) % SizeMod) <= size

\* offset += bytes
LinearStuckOffset(offset, bytes) == offset
LinearNewOffset(offset, bytes) == (offset + bytes) % SizeMod

\* CreateLinearAllocator(bytes)
CreateLinearAllocator(l, bytes) ==
    [offset |-> 0, arena |-> [data |-> Base(ArenaRegion(l)), size |-> bytes]]

\* LinearAllocator::AllocateMemoryBlock: the block returned and the new offset.
LinearAllocate(st, bytes) ==
    IF LinearFits(st.offset, bytes, st.arena.size)
    THEN [ok |-> TRUE,
          block |-> [data |-> st.offset + st.arena.data, size |-> bytes],
          offset |-> LinearNewOffset(st.offset, bytes)]
    ELSE [ok |-> FALSE, block |-> NullBlock, offset |-> st.offset]

\* LinearAllocator::FreeMemoryBlock: the return value and the caller's block after.
LinearFree(st, block) ==
    IF IsMemoryBlockInside(st.arena, block)
    THEN [ret |-> TRUE, block |-> NullBlock]
    ELSE [ret |-> FALSE, block |-> block]

\* LinearAllocator::ResetAllocator
LinearResetNothing(st) == st
LinearReset(st) == [st EXCEPT !.offset = 0]

\* ------------------------------------------------------------- MallocAllocator
\* The chunk the next successful malloc hands out.
FreshChunks(hs) ==
    {h \in DOMAIN hs : hs[h] = "unused" /\ \A k \in DOMAIN hs : k < h => hs[k] # "unused"}

\* What GEDO_MALLOC can return: NULL (no memory left, or malloc(0) on a platform
\* that answers NULL) or the address of a fresh chunk.
MallocResults(hs) == {NULL} \cup {Base(h) : h \in FreshChunks(hs)}

\* MallocAllocator::AllocateMemoryBlock with malloc returning p.
\* crash: the assertion on a NULL result, or memset through NULL.
MallocAllocate(p, bytes, asserts) ==
    [crash |-> p = NULL /\ (asserts \/ bytes > 0),
     block |-> [data |-> p, size |-> bytes]]

\* MallocAllocator::FreeMemoryBlock on block.
\* assert: GEDO_ASSERT(block.data) fails; valid: free() gets NULL or a live chunk.
MallocFree(hs, block) ==
    [assert |-> block.data = NULL,
     valid |-> \/ block.data = NULL
               \/ /\ IsBase(block.data)
                  /\ RegionOf(block.data) \in DOMAIN hs
                  /\ hs[RegionOf(block.data)] = "live",
     ret |-> TRUE,
     block |-> NullBlock]

VARIABLES
    assertsEnabled,  \* build: GEDO_ASSERT aborts (TRUE) or is compiled out (FALSE)
    aborted,         \* the process has been terminated (assert, crash)
    badFree,         \* free() was handed a pointer that is no live chunk, or memory that
                     \*   is not the process's was accessed, and the call returned: what
                     \*   the process does from there on is undefined
    lin,             \* lin[l]: the LinearAllocator's offset and arena block
    mem,             \* mem[r]: the bytes of region r
    hstate,          \* hstate[h]: "unused", "live" or "freed" malloc chunk
    issued,          \* issued[l]: the blocks of one byte or more that arena l issued
                     \*   since its creation or last reset, in order
    afterReset,      \* afterReset[l]: no AllocateMemoryBlock on l since its last reset
    held,            \* held[s]: the MemoryBlock variable s of the caller
    origin,          \* origin[s]: which allocator issued held[s], and the block issued
    released,        \* released[s]: the allocator whose Free invalidated held[s], or "none"
    scen,            \* progress of the 16-byte arena scenario on L1
    defaultAllocator,\* the process-wide default allocator
    conts,           \* conts[c]: the container object c (Array<T> or String)
    last,            \* the last call made on an allocator and what it returned, or
                     \*   the call on a container that ended the process
    calls            \* the number of calls made by a user who makes a bounded number

vars ==
    << assertsEnabled, aborted, badFree, lin, mem, hstate, issued, afterReset,
       held, origin, released, scen, defaultAllocator, conts, last, calls >>

\* ------------------------------------------------------------- allocator calls
\* The memory and the allocators as one value M, so that an operation making
\* several allocator calls can thread it through them.
Memory ==
    [lin |-> lin, mem |-> mem, hstate |-> hstate, issued |-> issued,
     afterReset |-> afterReset]

Commit(M) ==
    /\ lin' = M.lin
    /\ mem' = M.mem
    /\ hstate' = M.hstate
    /\ issued' = M.issued
    /\ afterReset' = M.afterReset

\* The results malloc may give to a call of a->AllocateMemoryBlock.
Results(M, a) == IF a \in MallocIds THEN MallocResults(M.hstate) ELSE {NULL}

\* ZeroMemoryBlock(result) writes outside the arena: offset + bytes wrapped around.
OutsideArena(st, block) == block.data + block.size > st.arena.data + st.arena.size

\* a->AllocateMemoryBlock(bytes) on a LinearAllocator, r being what the member
\* function computes. crash: the process ends in the call; undef: the memset of
\* the block runs past the end of the arena, which is undefined.
AllocateOnLinear(M, a, bytes, r) ==
    [crash |-> ~r.ok /\ assertsEnabled,
     undef |-> r.ok /\ OutsideArena(M.lin[a], r.block),
     ok |-> r.ok,
     block |-> r.block,
     M |-> [M EXCEPT
              !.lin[a].offset = r.offset,
              !.mem = IF r.ok THEN ZeroMemoryBlock(@, r.block) ELSE @,
              !.issued[a] = IF r.ok /\ bytes > 0 THEN Append(@, r.block) ELSE @,
              !.afterReset[a] = FALSE]]

\* a->AllocateMemoryBlock(bytes) on a MallocAllocator, malloc returning p.
AllocateOnMalloc(M, bytes, p, r) ==
    [crash |-> r.crash,
     undef |-> FALSE,
     ok |-> ~r.crash,
     block |-> r.block,
     M |-> IF p = NULL THEN M
           ELSE [M EXCEPT
                   !.hstate[RegionOf(p)] = "live",
                   !.mem = ZeroMemoryBlock([@ EXCEPT ![RegionOf(p)] = Garbage(bytes)],
                                           r.block)]]

\* a->AllocateMemoryBlock(bytes), malloc (if called) returning p.
AllocateOn(M, a, bytes, p) ==
    IF a \in LinearIds
    THEN AllocateOnLinear(M, a, bytes, LinearAllocate(M.lin[a], bytes))
    ELSE AllocateOnMalloc(M, bytes, p, MallocAllocate(p, bytes, assertsEnabled))

\* a->FreeMemoryBlock(block) on a LinearAllocator
FreeOnLinear(M, r) ==
    [crash |-> FALSE, undef |-> FALSE, ret |-> r.ret, block |-> r.block, M |-> M]

\* free() is handed a pointer that is neither NULL nor a live chunk.
InvalidFree(r) == ~r.assert /\ ~r.valid

\* a->FreeMemoryBlock(block) on a MallocAllocator. crash: GEDO_ASSERT ends the
\* process; undef: free() is handed a pointer that is no live chunk, which is
\* undefined.
FreeOnMalloc(M, block, r) ==
    [crash |-> r.assert /\ assertsEnabled,
     undef |-> InvalidFree(r),
     ret |-> r.ret,
     block |-> r.block,
     M |-> IF block.data = NULL \/ InvalidFree(r) THEN M
           ELSE [M EXCEPT !.hstate[RegionOf(block.data)] = "freed",
                          !.mem[RegionOf(block.data)] = << >>]]

\* a->FreeMemoryBlock(block)
FreeOn(M, a, block) ==
    IF a \in LinearIds
    THEN FreeOnLinear(M, LinearFree(M.lin[a], block))
    ELSE FreeOnMalloc(M, block, MallocFree(M.hstate, block))

\* a->ResetAllocator()
ResetOn(M, a) ==
    IF a \in LinearIds
    THEN [M EXCEPT !.lin[a] = LinearReset(@), !.issued[a] = << >>, !.afterReset[a] = TRUE]
    ELSE M

\* ------------------------------------------------------------- the process
NoOrigin == [alloc |-> "none", block |-> NullBlock]
Slots == {1}
ContIds == {1, 2}

\* FILE* fp, as a file function holds it: NULL (null) or a handle that is open
\* or not, with the number of fclose calls made on it (closes) and whether a
\* call was made on it when it was not open (misuse). NoFile: fp = NULL.
NoFile == [null |-> TRUE, open |-> FALSE, closes |-> 0, misuse |-> FALSE]

\* A container object: kind "Array" or "String" ("none": no object lives in the
\* variable), its allocator pointer ("null": NULL), block and count. pushes: the
\* number of push_back/append calls made on it if nothing else was called on it
\* since its construction as an empty or literal container, -1 otherwise.
NoCont ==
    [kind |-> "none", allocator |-> "null", block |-> NullBlock, count |-> 0,
     pushes |-> -1]

\* A call as recorded in last: what was called with what (op, alloc, slot, bytes,
\* arg: the caller's block at the call), what came back (ret: the block returned
\* or left in the caller's variable, ok: the boolean returned / success), and what
\* held when it was made: the arena's offset, who had issued arg, whether arg was
\* still the block as issued, whether arg had been invalidated by an earlier Free
\* of this allocator, whether the arena had just been reset.
\* fault: how the call ended the process or left it undefined, "none" if it returned
\* normally; cont: the container variable, for a call on a container that ended
\* the process; text, delim: the C string and the delimiter handed to SplitString
\* (text: the bytes of the file, for a file function); fp: the FILE* of a file
\* function when it returned; out: the array as QuickSort left it (text: the
\* array handed to QuickSort or BinarySearch, delim: the key searched).
NoCall ==
    [op |-> "none", alloc |-> "none", slot |-> 0, bytes |-> 0, arg |-> NullBlock,
     ret |-> NullBlock, ok |-> FALSE, preOffset |-> 0, issuer |-> "none",
     exact |-> FALSE, second |-> FALSE, fresh |-> FALSE, fault |-> "none",
     cont |-> 0, text |-> << >>, delim |-> 0, fp |-> NoFile,
     out |-> << >>]

InitMemory(chunks) ==
    /\ lin = [l \in LinearIds |-> CreateLinearAllocator(l, ArenaCapacity)]
    /\ mem = [r \in ArenaRegions \cup (1 .. chunks) |->
                 IF r \in ArenaRegions THEN Zeros(ArenaCapacity) ELSE << >>]
    /\ hstate = [h \in 1 .. chunks |-> "unused"]
    /\ issued = [l \in LinearIds |-> << >>]
    /\ afterReset = [l \in LinearIds |-> FALSE]

InitProcess ==
    /\ assertsEnabled \in BOOLEAN
    /\ aborted = FALSE
    /\ badFree = FALSE
    /\ held = [s \in Slots |-> NullBlock]
    /\ origin = [s \in Slots |-> NoOrigin]
    /\ released = [s \in Slots |-> "none"]
    /\ scen = 0
    /\ defaultAllocator = "M1"
    /\ conts = [c \in ContIds |-> NoCont]
    /\ last = NoCall
    /\ calls = 0

Init == InitMemory(MaxMallocs) /\ InitProcess

\* The process is gone: nothing of its memory is left to observe but the call
\* that ended it.
Gone(call, sc) ==
    /\ last' = call
    /\ scen' = sc
    /\ lin' = [l \in LinearIds |-> CreateLinearAllocator(l, lin[l].arena.size)]
    /\ mem' = [r \in DOMAIN mem |-> IF r \in ArenaRegions THEN Zeros(Len(mem[r])) ELSE << >>]
    /\ hstate' = [h \in DOMAIN hstate |-> "unused"]
    /\ issued' = [l \in LinearIds |-> << >>]
    /\ afterReset' = [l \in LinearIds |-> FALSE]
    /\ held' = [s \in Slots |-> NullBlock]
    /\ origin' = [s \in Slots |-> NoOrigin]
    /\ released' = [s \in Slots |-> "none"]
    /\ conts' = [c \in ContIds |-> NoCont]
    /\ UNCHANGED << assertsEnabled, defaultAllocator >>

Crash(call, sc) ==
    aborted' = TRUE /\ badFree' = badFree /\ Gone([call EXCEPT !.ok = FALSE], sc)

\* Undefined behaviour that did not end the process: the model follows it no
\* further than the return of the call.
Undefined(call, sc) == aborted' = aborted /\ badFree' = TRUE /\ Gone(call, sc)

\* The call's behaviour is undefined: the process is killed in it, or runs on.
UndefinedBehaviour(call, sc) == Crash(call, sc) \/ Undefined(call, sc)

Running == ~aborted /\ ~badFree

Call(op, a, s, bytes, ret, ok) ==
    [op |-> op, alloc |-> a, slot |-> s, bytes |-> bytes,
     arg |-> IF s \in Slots THEN held[s] ELSE NullBlock,
     ret |-> ret, ok |-> ok,
     preOffset |-> IF a \in LinearIds THEN lin[a].offset ELSE 0,
     issuer |-> IF s \in Slots THEN origin[s].alloc ELSE "none",
     exact |-> s \in Slots /\ origin[s].block = held[s],
     second |-> s \in Slots /\ released[s] = a /\ held[s] = NullBlock,
     fresh |-> a \in LinearIds /\ afterReset[a],
     fault |-> "none", cont |-> 0, text |-> << >>, delim |-> 0, fp |-> NoFile,
     out |-> << >>]

\* ------------------------------------------------------------- scenario observer
\* Follows the calls made on L1 from its creation: AllocateMemoryBlock(ScenarioReq),
\* AllocateMemoryBlock(ScenarioReq), ResetAllocator, AllocateMemoryBlock(capacity).
\* 1..4: that many calls of the scenario have been made and nothing else on L1;
\* 5: the calls on L1 departed from the scenario.
ScenStep(sc, l, op, bytes) ==
    IF l # "L1" THEN sc
    ELSE IF sc = 0 /\ op = "Allocate" /\ bytes = ScenarioReq THEN 1
    ELSE IF sc = 1 /\ op = "Allocate" /\ bytes = ScenarioReq THEN 2
    ELSE IF sc = 2 /\ op = "Reset" THEN 3
    ELSE IF sc = 3 /\ op = "Allocate" /\ bytes = ArenaCapacity THEN 4
    ELSE 5

\* ------------------------------------------------------------- the caller of the allocators
\* Is [p, p+n) memory the process may touch?
Addressable(M, p, n) ==
    /\ p # NULL
    /\ \E r \in DOMAIN M.mem :
          /\ Base(r) <= p /\ p + n <= Base(r) + Len(M.mem[r])
          /\ r \in DOMAIN M.hstate => M.hstate[r] = "live"

\* The caller's block s is a live malloc'ed chunk: assigning to it would leak it.
HoldsChunk(s) ==
    /\ held[s].data # NULL
    /\ RegionOf(held[s].data) \in DOMAIN hstate
    /\ hstate[RegionOf(held[s].data)] = "live"

\* block = a.AllocateMemoryBlock(bytes), block being the caller's variable s.
AllocateMemoryBlock(a, bytes, s) ==
    /\ Running
    /\ UNCHANGED calls
    /\ ~HoldsChunk(s)
    /\ \E p \in Results(Memory, a) :
          LET r == AllocateOn(Memory, a, bytes, p)
              call == Call("Allocate", a, s, bytes, IF r.crash THEN NullBlock ELSE r.block,
                           r.ok)
              sc == ScenStep(scen, a, "Allocate", bytes)
          IN  IF r.crash
              THEN Crash([call EXCEPT !.fault = "alloc"], sc)
              ELSE IF r.undef
              THEN UndefinedBehaviour([call EXCEPT !.fault = "access"], sc)
              ELSE /\ Commit(r.M)
                   /\ held' = [held EXCEPT ![s] = r.block]
                   /\ origin' = [origin EXCEPT ![s] =
                                    IF r.ok THEN [alloc |-> a, block |-> r.block]
                                    ELSE NoOrigin]
                   /\ released' = [released EXCEPT ![s] = "none"]
                   /\ scen' = sc
                   /\ last' = call
                   /\ UNCHANGED << assertsEnabled, aborted, badFree, defaultAllocator,
                                   conts >>

\* a.FreeMemoryBlock(block), block being the caller's variable s.
FreeMemoryBlock(a, s) ==
    /\ Running
    /\ UNCHANGED calls
    /\ LET r == FreeOn(Memory, a, held[s])
           call == Call("Free", a, s, 0, IF r.crash THEN held[s] ELSE r.block,
                        ~r.crash /\ r.ret)
       IN  IF r.crash THEN Crash([call EXCEPT !.fault = "free"], scen)
           ELSE IF r.undef THEN UndefinedBehaviour([call EXCEPT !.fault = "undef"], scen)
           ELSE /\ Commit(r.M)
                /\ held' = [held EXCEPT ![s] = r.block]
                /\ origin' = [origin EXCEPT ![s] = IF r.ret THEN NoOrigin ELSE @]
                /\ released' = [released EXCEPT ![s] =
                                   IF r.ret /\ held[s].data # NULL THEN a ELSE @]
                /\ last' = call
                /\ UNCHANGED << assertsEnabled, aborted, badFree, scen,
                                defaultAllocator, conts >>

\* a.ResetAllocator()
ResetAllocator(a) ==
    /\ Running
    /\ UNCHANGED calls
    /\ Commit(ResetOn(Memory, a))
    /\ scen' = ScenStep(scen, a, "Reset", 0)
    /\ last' = Call("Reset", a, 0, 0, NullBlock, TRUE)
    /\ UNCHANGED << assertsEnabled, aborted, badFree, held, origin, released,
                    defaultAllocator, conts >>

\* The caller writes 1, 2, 3, ... into the bytes of a block it holds.
WriteBlock(s) ==
    /\ Running
    /\ UNCHANGED calls
    /\ held[s].size > 0
    /\ Addressable(Memory, held[s].data, held[s].size)
    /\ mem' = MemWrite(mem, held[s].data, Pattern(held[s].size))
    /\ last' = Call("Write", "none", s, 0, NullBlock, TRUE)
    /\ UNCHANGED << assertsEnabled, aborted, badFree, lin, hstate, issued, afterReset,
                    held, origin, released, scen, defaultAllocator, conts >>

Next ==
    \/ \E a \in Allocators, s \in Slots : \E n \in ReqSizes(a) : AllocateMemoryBlock(a, n, s)
    \/ \E a \in Allocators, s \in Slots : FreeMemoryBlock(a, s)
    \/ \E a \in Allocators : ResetAllocator(a)
    \/ \E s \in Slots : WriteBlock(s)

Spec == Init /\ [][Next]_vars

\* ------------------------------------------------------------- the arena, any byte count
\* The caller of one arena, asking also for byte counts near the top of size_t.
WideSizes == {0, ArenaCapacity - ScenarioReq, ScenarioReq, SizeMod - WideReq}

NextWide ==
    \/ \E l \in LinearIds, s \in Slots : \E n \in WideSizes : AllocateMemoryBlock(l, n, s)
    \/ \E l \in LinearIds, s \in Slots : FreeMemoryBlock(l, s)
    \/ \E l \in LinearIds : ResetAllocator(l)
    \/ \E s \in Slots : WriteBlock(s)

SpecWide == Init /\ [][NextWide]_vars

\* ------------------------------------------------------------- Array<T>, String
\* sizeof(T) for the element type of the Arrays modelled, T = int
SizeofT == 4

\* sizeof(String) in words of the model's size_t: allocator, block.data,
\* block.size, count
SizeofString == 4

\* sizeof(StringView) in words: data, size
SizeofStringView == 2

\* sizeof(T) of the elements of a container: kind "Array" is Array<int>, kind
\* "Strings" is Array<String>, kind "Views" is Array<StringView>, a String
\* holds chars.
ElemSize(kind) ==
    IF kind = "Array" THEN SizeofT
    ELSE IF kind = "Strings" THEN SizeofString
    ELSE IF kind = "Views" THEN SizeofStringView
    ELSE 1

\* The value of an Allocator* as stored in an object, and the allocator it points to.
AllocatorOrder == << "M1", "M2", "L1" >>
AddressOf(a) ==
    IF a = "null" THEN NULL ELSE CHOOSE i \in DOMAIN AllocatorOrder : AllocatorOrder[i] = a
AllocatorAt(w) == IF w = NULL THEN "null" ELSE AllocatorOrder[w]

\* The bytes of an element: an int in little-endian order, or one char.
ElemBytes(kind, d) ==
    IF kind = "Array"
    THEN << d % 256, (d \div 256) % 256, 0, 0 >>
    ELSE IF kind = "Strings"
    THEN << AddressOf(d.allocator), d.block.data, d.block.size, d.count >>
    ELSE IF kind = "Views"
    THEN << d.data, d.size >>
    ELSE << d >>

\* capacity()
Capacity(c) ==
    IF c.kind = "String" THEN c.block.size ELSE c.block.size \div ElemSize(c.kind)

\* The byte count reserve(s) asks the allocator for.
ReserveBytes(kind, s) ==
    IF kind = "String" THEN (s + 1) % SizeMod ELSE (s * ElemSize(kind)) % SizeMod

\* The size push_back and append(char) resize to when the container is full.
GrowByOne(s) == s + 1
GrowTarget(s) == IF s # 0 THEN (2 * s) % SizeMod ELSE 8

\* if (block.data): the container owns a block.
OwnsNothing(block) == FALSE
OwnsBlock(block) == block.data # NULL

\* The number of bytes reserve copies from the old block into the new one.
CopyNothing(block) == 0
CopyLength(block) == block.size

\* StringLength(string), string given as its bytes before the terminator
StringLength(string) == Len(string)

\* The outcome of a step of a member function: the memory M and the container c
\* after it, or how it ended the process (fault).
Done(M, c) == [fault |-> "none", M |-> M, c |-> c]
Fault(f, M, c) == [fault |-> f, M |-> M, c |-> c]

\* GEDO_MEMCPY(dst, src, n)
MemcpyOn(M, dst, src, n) ==
    IF n = 0 THEN [fault |-> "none", M |-> M]
    ELSE IF Addressable(M, dst, n) /\ Addressable(M, src, n)
    THEN [fault |-> "none", M |-> [M EXCEPT !.mem = MemWrite(@, dst, MemRead(@, src, n))]]
    ELSE [fault |-> "access", M |-> M]

\* allocator->FreeMemoryBlock(block) as a member function calls it, f being the
\* outcome of the allocator's FreeMemoryBlock.
ContFreed(c, f) ==
    IF f.crash THEN Fault("free", f.M, c)
    ELSE IF f.undef THEN Fault("undef", f.M, c)
    ELSE Done(f.M, [c EXCEPT !.block = f.block])

ContFree(M, c) ==
    IF c.allocator = "null" THEN Fault("null", M, c)
    ELSE ContFreed(c, FreeOn(M, c.allocator, c.block))

\* reserve(s), from its last statement back to its first:
\* block = newBlock, fr being the outcome of freeing the old block
ReserveAdopt(newBlock, fr) ==
    IF fr.fault # "none" THEN fr ELSE Done(fr.M, [fr.c EXCEPT !.block = newBlock])

\* allocator->FreeMemoryBlock(block), cp being the outcome of the memcpy
ReserveFree(c, newBlock, cp) ==
    IF cp.fault # "none" THEN Fault(cp.fault, cp.M, c)
    ELSE ReserveAdopt(newBlock, ContFree(cp.M, c))

\* if (block.data) { GEDO_MEMCPY(newBlock.data, block.data, block.size); ... }
ReserveCopy(M, c, newBlock) ==
    IF OwnsBlock(c.block)
    THEN ReserveFree(c, newBlock,
                     MemcpyOn(M, newBlock.data, c.block.data, CopyLength(c.block)))
    ELSE Done(M, [c EXCEPT !.block = newBlock])

\* String::reserve only: ZeroMemoryBlock(newBlock)
ReserveZero(M, kind, newBlock) ==
    IF kind = "String" THEN [M EXCEPT !.mem = ZeroMemoryBlock(@, newBlock)] ELSE M

\* newBlock = allocator->AllocateMemoryBlock(...), a being the outcome of the call
ReserveNew(c, a) ==
    IF a.crash THEN Fault("alloc", a.M, c)
    ELSE IF a.undef THEN Fault("access", a.M, c)
    ELSE ReserveCopy(ReserveZero(a.M, c.kind, a.block), c, a.block)

Reserve(M, c, s, p) ==
    IF ~(Capacity(c) < s) THEN Done(M, c)
    ELSE IF c.allocator = "null" THEN Fault("null", M, c)
    ELSE ReserveNew(c, AllocateOn(M, c.allocator, ReserveBytes(c.kind, s), p))

\* count = s, after a step with outcome r
SetCount(r, s) ==
    IF r.fault # "none" THEN r ELSE Done(r.M, [r.c EXCEPT !.count = s])

\* resize(s)
Resize(M, c, s, p) ==
    SetCount(IF Capacity(c) < s THEN Reserve(M, c, s, p) ELSE Done(M, c), s)

\* data()[count++] = d
Store(M, c, d) ==
    IF Addressable(M, c.block.data + c.count * ElemSize(c.kind), ElemSize(c.kind))
    THEN Done([M EXCEPT !.mem = MemWrite(@, c.block.data + c.count * ElemSize(c.kind),
                                         ElemBytes(c.kind, d))],
              [c EXCEPT !.count = (@ + 1) % SizeMod])
    ELSE Fault("access", M, c)

\* data()[count++] = d, after a step with outcome g
StoreAfter(g, d) == IF g.fault # "none" THEN g ELSE Store(g.M, g.c, d)

\* Array::push_back(d), String::append(char d)
PushBack(M, c, d, p) ==
    IF c.count >= Capacity(c)
    THEN StoreAfter(SetCount(Resize(M, c, GrowTarget(c.count), p), c.count), d)
    ELSE Store(M, c, d)

\* for (i < len) data()[count++] = string[i], after a step with outcome r
RECURSIVE StoreAll(_, _)
StoreAll(r, string) ==
    IF r.fault # "none" \/ string = << >> THEN r
    ELSE StoreAll(Store(r.M, r.c, Head(string)), Tail(string))

\* String::append(const char* string)
AppendString(M, c, string, p) ==
    StoreAll(Reserve(M, c, (c.count + StringLength(string)) % SizeMod, p),
             SubSeq(string, 1, StringLength(string)))

\* clear()
Clear(c) == [c EXCEPT !.count = 0]

\* Array(), String(): the members' default initializers
DefaultConstruct(kind) ==
    [kind |-> kind, allocator |-> defaultAllocator, block |-> NullBlock, count |-> 0,
     pushes |-> 0]

\* String(const char* string, Allocator& alloc)
StringFromLiteral(M, string, alloc, p) ==
    AppendString(M, [DefaultConstruct("String") EXCEPT !.allocator = alloc], string, p)

\* Array(const Array& s), String(const String& s), from the last statement back:
\* count = s.count, cp being the outcome of the memcpy into block
CopyAdoptDefault(s, block, cp) ==
    IF cp.fault # "none" THEN Fault(cp.fault, cp.M, NoCont)
    ELSE Done(cp.M, [kind |-> s.kind, allocator |-> defaultAllocator, block |-> block,
                     count |-> s.count, pushes |-> -1])
CopyAdopt(s, block, cp) ==
    IF cp.fault # "none" THEN Fault(cp.fault, cp.M, NoCont)
    ELSE Done(cp.M, [kind |-> s.kind, allocator |-> s.allocator, block |-> block,
                     count |-> s.count, pushes |-> -1])

\* GEDO_MEMCPY(block.data, s.block.data, block.size), a being the outcome of
\* allocator->AllocateMemoryBlock(s.block.size)
CopyInto(s, a) ==
    IF a.crash THEN Fault("alloc", a.M, NoCont)
    ELSE IF a.undef THEN Fault("access", a.M, NoCont)
    ELSE CopyAdopt(s, a.block, MemcpyOn(a.M, a.block.data, s.block.data, a.block.size))

CopyConstruct(M, s, p) ==
    IF s.allocator = "null" THEN Fault("null", M, NoCont)
    ELSE CopyInto(s, AllocateOn(M, s.allocator, s.block.size, p))

\* Array& operator=(const Array& s), String& operator=(const String& s): the
\* object assigned to, its former block dropped without a FreeMemoryBlock. In
\* a self-assignment s.block is the block just allocated when the memcpy reads it.
CopyAssignInto(s, self, a) ==
    CopyInto(IF self /\ ~a.crash /\ ~a.undef THEN [s EXCEPT !.block = a.block] ELSE s, a)

CopyAssignByCount(M, s, self, p) ==
    IF s.allocator = "null" THEN Fault("null", M, NoCont)
    ELSE CopyAssignInto(s, self, AllocateOn(M, s.allocator, s.count * ElemSize(s.kind), p))
CopyAssign(M, s, self, p) ==
    IF s.allocator = "null" THEN Fault("null", M, NoCont)
    ELSE CopyAssignInto(s, self, AllocateOn(M, s.allocator, s.block.size, p))

\* Array(Array&& s), String(String&& s), operator=(Array&& s), operator=(String&& s):
\* the object built or assigned to, and what is left of s
MoveLeavesBlock(s) ==
    [to |-> [s EXCEPT !.pushes = -1],
     from |-> [s EXCEPT !.allocator = "null", !.count = 0, !.pushes = -1]]
MoveConstruct(s) ==
    [to |-> [s EXCEPT !.pushes = -1],
     from |-> [s EXCEPT !.allocator = "null", !.block = NullBlock, !.count = 0,
                        !.pushes = -1]]

\* ~Array(), ~String(): the object is gone once the block has been freed
Destroyed(f) == IF f.fault # "none" THEN f ELSE Done(f.M, NoCont)

Destroy(M, c) ==
    IF OwnsBlock(c.block) THEN Destroyed(ContFree(M, c)) ELSE Done(M, NoCont)

\* pop_back()
PopBack(c) == [c EXCEPT !.count = (@ - 1) % SizeMod]

\* operator[](i) = d
SetElement(M, c, i, d) ==
    IF ~(i < c.count) /\ assertsEnabled THEN Fault("assert", M, c)
    ELSE IF Addressable(M, c.block.data + i * ElemSize(c.kind), ElemSize(c.kind))
    THEN Done([M EXCEPT !.mem = MemWrite(@, c.block.data + i * ElemSize(c.kind),
                                         ElemBytes(c.kind, d))], c)
    ELSE Fault("access", M, c)

\* The bytes of the first n elements of container c.
Elements(M, c, n) ==
    IF n = 0 THEN << >>
    ELSE IF Addressable(M, c.block.data, n * ElemSize(c.kind))
    THEN MemRead(M.mem, c.block.data, n * ElemSize(c.kind))
    ELSE << >>

\* ------------------------------------------------------------- strings
\* What malloc returns to a call made inside a string function: the next chunk,
\* NULL when none is left.
NextChunk(M) ==
    IF FreshChunks(M.hstate) = {} THEN NULL
    ELSE Base(CHOOSE h \in FreshChunks(M.hstate) : TRUE)

\* StringLength(string) on the bytes at address p: the number of bytes before
\* the first zero byte, counting from n; -1 when the loop leaves the memory of
\* the process (p is NULL, or no zero byte ends the bytes at p).
RECURSIVE CStringLength(_, _, _)
CStringLength(M, p, n) ==
    IF ~Addressable(M, p + n, 1) THEN -1
    ELSE IF MemRead(M.mem, p + n, 1) = << 0 >> THEN n
    ELSE CStringLength(M, p, n + 1)

\* result.append(strings[i].data()), after a step with outcome r
AppendData(r, string) ==
    IF r.fault # "none" THEN r
    ELSE IF CStringLength(r.M, string.block.data, 0) < 0 THEN Fault("access", r.M, r.c)
    ELSE AppendString(r.M, r.c,
                      MemRead(r.M.mem, string.block.data,
                              CStringLength(r.M, string.block.data, 0)),
                      NextChunk(r.M))

\* if (addSeperator && i != stringsCount - 1) result.append(seperator)
AppendSeperatorAlways(r, seperator, isLast) ==
    IF r.fault # "none" \/ seperator = 0 THEN r
    ELSE PushBack(r.M, r.c, seperator, NextChunk(r.M))
AppendSeperator(r, seperator, isLast) ==
    IF r.fault # "none" \/ seperator = 0 \/ isLast THEN r
    ELSE PushBack(r.M, r.c, seperator, NextChunk(r.M))

\* The second loop of ConcatStrings from index i (1-based) on.
RECURSIVE ConcatFrom(_, _, _, _)
ConcatFrom(r, strings, i, seperator) ==
    IF i > Len(strings) THEN r
    ELSE ConcatFrom(AppendSeperator(AppendData(r, strings[i]), seperator,
                                    i = Len(strings)),
                    strings, i + 1, seperator)

\* The first loop of ConcatStrings: resultSize
RECURSIVE SumCounts(_)
SumCounts(strings) ==
    IF strings = << >> THEN 0 ELSE (Head(strings).count + SumCounts(Tail(strings))) % SizeMod

ResultSize(strings, seperator) ==
    IF seperator # 0 THEN (SumCounts(strings) + Len(strings) - 1) % SizeMod
    ELSE SumCounts(strings)

\* ConcatStrings(strings, stringsCount, seperator), strings given as the
\* sequence of its stringsCount String objects; p: what malloc returns to
\* result.reserve(resultSize).
ConcatStrings(M, strings, seperator, p) ==
    ConcatFrom(Reserve(M, DefaultConstruct("String"), ResultSize(strings, seperator), p),
               strings, 1, seperator)

\* strings[i] of an Array<String> c: the String object held in element i
StringAt(M, c, i) ==
    [kind |-> "String",
     allocator |-> AllocatorAt(MemRead(M.mem, c.block.data + i * SizeofString, SizeofString)[1]),
     block |-> [data |-> MemRead(M.mem, c.block.data + i * SizeofString, SizeofString)[2],
                size |-> MemRead(M.mem, c.block.data + i * SizeofString, SizeofString)[3]],
     count |-> MemRead(M.mem, c.block.data + i * SizeofString, SizeofString)[4],
     pushes |-> -1]

\* for (i = from; i < to; ++i) s.append(string[i]), string being the chars left
RECURSIVE AppendAll(_, _)
AppendAll(r, string) ==
    IF r.fault # "none" \/ string = << >> THEN r
    ELSE AppendAll(PushBack(r.M, r.c, Head(string), NextChunk(r.M)), Tail(string))

\* CopyString(string, from, to, allocator)
CopyString(M, string, from, to, allocator) ==
    AppendAll(Reserve(M, [DefaultConstruct("String") EXCEPT !.allocator = allocator],
                      (to - from + 1) % SizeMod, NextChunk(M)),
              SubSeq(string, from + 1, to))

\* string[i] of a C string given as its bytes before the terminator
CharAt(string, i) == IF i < Len(string) THEN string[i + 1] ELSE 0

\* while (string[i] == delim && i < len) i++;
RECURSIVE SkipDelims(_, _, _)
SkipDelims(string, delim, i) ==
    IF CharAt(string, i) = delim /\ i < Len(string)
    THEN SkipDelims(string, delim, i + 1) ELSE i

\* The scan both loops of SplitString make, from index i with previousOffset:
\* the segments << from, to >> at which the first counts a part and the second
\* copies one, in order.
SegmentAlways(previousOffset, i) == << << previousOffset, i >> >>
Segment(previousOffset, i) ==
    IF i - previousOffset # 0 THEN << << previousOffset, i >> >> ELSE << >>

RECURSIVE Segments(_, _, _, _)
Segments(string, delim, i, previousOffset) ==
    IF ~(i < Len(string)) THEN Segment(previousOffset, i)
    ELSE IF CharAt(string, i) = delim
    THEN Segment(previousOffset, i)
             \o Segments(string, delim, SkipDelims(string, delim, i),
                         SkipDelims(string, delim, i))
    ELSE Segments(string, delim, i + 1, previousOffset)

\* result.push_back(l) on an Array<String>: data()[count++] = l is
\* String::operator=(const String&) on the element. g: the outcome of making
\* room, cp: that of the assignment
PushBackString(M, c, l) ==
    LET g == IF c.count >= Capacity(c)
             THEN SetCount(Resize(M, c, GrowTarget(c.count), NextChunk(M)), c.count)
             ELSE Done(M, c)
        cp == CopyAssign(g.M, l, FALSE, NextChunk(g.M))
    IN  IF g.fault # "none" THEN g
        ELSE IF cp.fault # "none" THEN Fault(cp.fault, cp.M, g.c)
        ELSE Store(cp.M, g.c, cp.c)

\* { String l = CopyString(...); result.push_back(l); }   r: the outcome so far,
\* l: that of CopyString, pb: that of push_back, d: that of ~String on l
PartCopied(r, l) ==
    LET pb == PushBackString(l.M, r.c, l.c)
        d == Destroy(pb.M, l.c)
    IN  IF l.fault # "none" THEN Fault(l.fault, l.M, r.c)
        ELSE IF pb.fault # "none" THEN pb
        ELSE IF d.fault # "none" THEN Fault(d.fault, d.M, pb.c)
        ELSE Done(d.M, pb.c)

\* The second loop of SplitString over the segments left
RECURSIVE SplitParts(_, _, _, _)
SplitParts(r, string, segments, allocator) ==
    IF r.fault # "none" \/ segments = << >> THEN r
    ELSE SplitParts(PartCopied(r, CopyString(r.M, string, Head(segments)[1],
                                             Head(segments)[2], allocator)),
                    string, Tail(segments), allocator)

\* The first loop of SplitString and of SplitStringView from index i with
\* previousOffset: what it adds to partsCount
RECURSIVE PartsCount(_, _, _, _)
PartsCount(string, delim, i, previousOffset) ==
    IF ~(i < Len(string)) THEN (IF i - previousOffset # 0 THEN 1 ELSE 0)
    ELSE IF CharAt(string, i) = delim
    THEN (IF i - previousOffset # 0 THEN 1 ELSE 0)
             + PartsCount(string, delim, SkipDelims(string, delim, i),
                          SkipDelims(string, delim, i))
    ELSE PartsCount(string, delim, i + 1, previousOffset)

\* SplitString(string, delim, allocator)
SplitString(M, string, delim, allocator) ==
    SplitParts(Reserve(M, [DefaultConstruct("Strings") EXCEPT !.allocator = allocator],
                       PartsCount(string, delim, 0, 0), NextChunk(M)),
               string, Segments(string, delim, 0, 0), allocator)

\* The address of the C string handed to the split functions, which is no
\* block of an allocator.
TextAt == 16

\* { StringView l; l.data = string + previousOffset; l.size = slen;
\*   result.push_back(l); }   for each of the segments left
RECURSIVE PushViews(_, _)
PushViews(r, segments) ==
    IF r.fault # "none" \/ segments = << >> THEN r
    ELSE PushViews(PushBack(r.M, r.c,
                            [data |-> TextAt + Head(segments)[1],
                             size |-> Head(segments)[2] - Head(segments)[1]],
                            NextChunk(r.M)),
                   Tail(segments))

\* SplitStringView(string, delim, allocator)
SplitStringView(M, string, delim, allocator) ==
    PushViews(Reserve(M, [DefaultConstruct("Views") EXCEPT !.allocator = allocator],
                      PartsCount(string, delim, 0, 0), NextChunk(M)),
              Segments(string, delim, 0, 0))

\* The first loop of the line functions: partsCount
LinesCount(string) == Cardinality({i \in 0 .. Len(string) - 1 : CharAt(string, i) = 10})

\* The second loop of the line functions from index i with previousOffset, and
\* the part after it: the segments << from, to >> pushed
RECURSIVE LineSegments(_, _, _)
LineSegments(string, i, previousOffset) ==
    IF ~(i < Len(string)) THEN Segment(previousOffset, Len(string))
    ELSE IF CharAt(string, i) = 10
    THEN Segment(previousOffset, i) \o LineSegments(string, i + 1, i)
    ELSE LineSegments(string, i + 1, previousOffset)

\* SplitStringIntoLines(string, allocator)
SplitStringIntoLines(M, string, allocator) ==
    SplitParts(Reserve(M, [DefaultConstruct("Strings") EXCEPT !.allocator = allocator],
                       LinesCount(string), NextChunk(M)),
               string, LineSegments(string, 0, 0), allocator)

\* SplitStringViewIntoLines(string, delim, allocator)
SplitStringViewIntoLines(M, string, delim, allocator) ==
    PushViews(Reserve(M, [DefaultConstruct("Views") EXCEPT !.allocator = allocator],
                      LinesCount(string), NextChunk(M)),
              LineSegments(string, 0, 0))

\* The split function named fn
SplitBy(fn, M, string, delim, allocator) ==
    IF fn = "SplitString" THEN SplitString(M, string, delim, allocator)
    ELSE IF fn = "SplitStringView" THEN SplitStringView(M, string, delim, allocator)
    ELSE IF fn = "SplitStringIntoLines" THEN SplitStringIntoLines(M, string, allocator)
    ELSE SplitStringViewIntoLines(M, string, delim, allocator)

\* Array<String> parts = SplitString(string, delim);
\* String c = ConcatStrings(parts.data(), parts.size(), delim);   and parts
\* leaves its scope. sp: the outcome of SplitString, cc: that of ConcatStrings,
\* d: that of ~Array on parts, null: malloc answers ConcatStrings with NULL
SplitThenConcat(sp, delim, null) ==
    LET cc == ConcatStrings(sp.M, [i \in 1 .. sp.c.count |-> StringAt(sp.M, sp.c, i - 1)],
                            delim, IF null THEN NULL ELSE NextChunk(sp.M))
        d == Destroy(cc.M, sp.c)
    IN  IF sp.fault # "none" THEN Fault(sp.fault, sp.M, NoCont)
        ELSE IF cc.fault # "none" THEN cc
        ELSE IF d.fault # "none" THEN Fault(d.fault, d.M, cc.c)
        ELSE Done(d.M, cc.c)

\* ------------------------------------------------------------- algorithms
\* An array T* p of Len(a) elements is the sequence a, p[k] being a[k + 1].
\* Swap(p[i], p[j])
Swap(a, i, j) == [a EXCEPT ![i + 1] = a[j + 1], ![j + 1] = a[i + 1]]

\* QuickSort on p = a + base: for (;; ++i) if (!compare(p[i], p[0])) break;
\* the index it stops at, -1 when it reads past the end of the array
RECURSIVE ScanUp(_, _, _)
ScanUp(a, base, i) ==
    IF base + i >= Len(a) THEN -1
    ELSE IF ~(a[base + i + 1] < a[base + 1]) THEN i
    ELSE ScanUp(a, base, (i + 1) % SizeMod)

\* for (;; --j) if (!compare(p[0], p[j])) break;
RECURSIVE ScanDown(_, _, _)
ScanDown(a, base, j) ==
    IF base + j >= Len(a) THEN -1
    ELSE IF ~(a[base + 1] < a[base + j + 1]) THEN j
    ELSE ScanDown(a, base, (j + SizeMod - 1) % SizeMod)

\* the partition loop, from i and j on
RECURSIVE Partition(_, _, _, _)
Partition(a, base, i, j) ==
    LET i2 == ScanUp(a, base, i)
        j2 == ScanDown(a, base, j)
    IN  IF i2 = -1 \/ j2 = -1 THEN [fault |-> "access", a |-> a, i |-> i, j |-> j]
        ELSE IF i2 >= j2 THEN [fault |-> "none", a |-> a, i |-> i2, j |-> j2]
        ELSE Partition(Swap(a, base + i2, base + j2), base,
                       (i2 + 1) % SizeMod, (j2 + SizeMod - 1) % SizeMod)

\* QuickSort(p, size, compare) with p = a + base and compare(x, y) = x < y:
\* the array a as the call leaves it
RECURSIVE QuickSort(_, _, _)
QuickSort(a, base, size) ==
    IF ~(size > 12) THEN [fault |-> "none", a |-> a]
    ELSE LET m == size \div 2
             c01 == a[base + 1] < a[base + m + 1]
             c12 == a[base + m + 1] < a[base + size]
             c == a[base + 1] < a[base + size]
             z == IF c = c12 THEN 0 ELSE size - 1
             med == IF c01 # c12 THEN Swap(a, base + z, base + m) ELSE a
             pt == Partition(Swap(med, base, base + m), base, 1, size - 1)
             low == QuickSort(pt.a, base, pt.j)
             high == QuickSort(pt.a, base + pt.i, size - pt.i)
         IN  IF pt.fault # "none" THEN [fault |-> pt.fault, a |-> pt.a]
             ELSE IF pt.j < size - pt.i
             THEN IF low.fault # "none" THEN low
                  ELSE QuickSort(low.a, base + pt.i, size - pt.i)
             ELSE IF high.fault # "none" THEN high
                  ELSE QuickSort(high.a, base, pt.j)

\* BinarySearch(p, size, key, <, ==) from the test of the while loop on, low and
\* high being size_t: the value returned, or the read of p[mid] outside p
RECURSIVE SearchFrom(_, _, _, _)
SearchFrom(a, key, low, high) ==
    IF ~(low <= high) THEN [fault |-> "none", ret |-> -1]
    ELSE LET mid == (low + ((high - low) \div 2)) % SizeMod
         IN  IF mid >= Len(a) THEN [fault |-> "access", ret |-> -1]
             ELSE IF a[mid + 1] = key THEN [fault |-> "none", ret |-> mid]
             ELSE IF a[mid + 1] < key THEN SearchFrom(a, key, (mid + 1) % SizeMod, high)
             ELSE SearchFrom(a, key, low, (mid + SizeMod - 1) % SizeMod)

BinarySearch(a, size, key) == SearchFrom(a, key, 0, (size + SizeMod - 1) % SizeMod)

\* ------------------------------------------------------------- files
\* fopen(fileName, mode), the file being there to open (exists) or not
fopen(exists) == [NoFile EXCEPT !.null = ~exists, !.open = exists]

\* fseek(fp, ...), ftell(fp), fread(..., fp), fwrite(..., fp)
FileUse(fp) == [fp EXCEPT !.misuse = @ \/ ~fp.open]

\* fclose(fp)
fclose(fp) == [fp EXCEPT !.open = FALSE, !.closes = @ + 1, !.misuse = @ \/ ~fp.open]

\* return of a file function: result (block) and size as computed, fp as it is
\* left. A call made on a closed handle is undefined.
FileDone(M, block, size, fp) ==
    [fault |-> IF fp.misuse THEN "undef" ELSE "none", M |-> M,
     c |-> [block |-> block, count |-> size], fp |-> fp]

\* ReadFile(fileName, allocator), the file holding the bytes content: fopen,
\* fseek, ftell, fseek, AllocateMemoryBlock(size + 1), fread, fclose. a: the
\* outcome of AllocateMemoryBlock, fp: the handle when it is called
ReadFile(M, exists, content, allocator, p) ==
    LET fp == FileUse(FileUse(FileUse(fopen(TRUE))))
        a == AllocateOn(M, allocator, (Len(content) + 1) % SizeMod, p)
    IN  IF ~exists THEN FileDone(M, NullBlock, 0, fopen(FALSE))
        ELSE IF a.crash THEN [FileDone(a.M, NullBlock, 0, fp) EXCEPT !.fault = "alloc"]
        ELSE IF a.undef \/ ~Addressable(a.M, a.block.data, Len(content) + 1)
        THEN [FileDone(a.M, NullBlock, 0, fp) EXCEPT !.fault = "access"]
        ELSE FileDone([a.M EXCEPT !.mem = MemWrite(@, a.block.data, content \o << 0 >>)],
                      a.block, Len(content), fclose(FileUse(fp)))

\* WriteFile(fileName, block, allocator): fopen, fwrite, fclose
WriteFile(M, exists) ==
    FileDone(M, NullBlock, 0, IF exists THEN fclose(FileUse(fopen(TRUE))) ELSE fopen(FALSE))

\* DoesFileExist(fileName, allocator): fopen, fclose
DoesFileExist(M, exists) ==
    FileDone(M, NullBlock, 0, IF exists THEN fclose(fopen(TRUE)) ELSE fopen(FALSE))

\* GetFileSize(fileName, allocator): fopen, fseek, fclose, ftell
GetFileSize(M, exists, content) ==
    FileDone(M, NullBlock, IF exists THEN Len(content) ELSE -1,
             IF exists THEN FileUse(fclose(FileUse(fopen(TRUE)))) ELSE fopen(FALSE))

\* ------------------------------------------------------------- the user of the containers
\* A member function called on container variable c, or a constructor building it.
ContCall(op, c) == [NoCall EXCEPT !.op = op, !.cont = c]

\* The call ends with outcome r, the container variables becoming cs. An access
\* to memory that is not the process's is undefined, like an invalid free().
Finish(call, r, cs) ==
    IF r.fault = "none"
    THEN /\ Commit(r.M)
         /\ conts' = cs
         /\ last' = NoCall
         /\ UNCHANGED << assertsEnabled, aborted, badFree, held, origin, released, scen,
                         defaultAllocator >>
    ELSE IF r.fault \in {"undef", "access"}
    THEN UndefinedBehaviour([call EXCEPT !.fault = r.fault, !.ok = FALSE], scen)
    ELSE Crash([call EXCEPT !.fault = r.fault, !.ok = FALSE], scen)

\* The call on container variable c ends with outcome r, r.c being the container
\* after it and pushes what the call makes of the count of push_back calls.
FinishOn(call, c, r, pushes) ==
    Finish(call, r, [conts EXCEPT ![c] = [r.c EXCEPT !.pushes = pushes]])

\* The call returns container r.c, the container variables becoming cs: last
\* records its block (ret) and count (bytes).
Returns(call, r, cs) ==
    IF r.fault # "none" THEN Finish(call, r, cs)
    ELSE /\ Commit(r.M)
         /\ conts' = cs
         /\ last' = [call EXCEPT !.ret = r.c.block, !.bytes = r.c.count, !.ok = TRUE]
         /\ UNCHANGED << assertsEnabled, aborted, badFree, held, origin, released, scen,
                         defaultAllocator >>

\* pushes after one more push_back/append
Pushed(c) == IF c.pushes >= 0 THEN c.pushes + 1 ELSE -1

\* The element the user pushes: the elements of an Array differ by position; the
\* byte appended to a String is 'a'.
PushValue(c) == IF c.kind = "Array" THEN 1 + (c.count % 200) ELSE 97

\* The literals the user builds and appends: "", "a"
Literals == {<< >>, << 97 >>}

\* Array<T> c; String c;
Cont_Construct(c, kind) ==
    /\ Running
    /\ conts[c].kind = "none"
    /\ Finish(ContCall("construct", c), Done(Memory, NoCont),
              [conts EXCEPT ![c] = DefaultConstruct(kind)])

\* String c(string);
Cont_FromLiteral(c, string) ==
    /\ Running
    /\ conts[c].kind = "none"
    /\ \E p \in Results(Memory, defaultAllocator) :
          FinishOn(ContCall("literal", c), c,
                   StringFromLiteral(Memory, string, defaultAllocator, p), 0)

\* c.push_back(d); c.append(d);
Cont_PushBack(c, d) ==
    /\ Running
    /\ conts[c].kind # "none"
    /\ \E p \in Results(Memory, conts[c].allocator) :
          FinishOn(ContCall("push_back", c), c,
                   PushBack(Memory, conts[c], d, p), Pushed(conts[c]))

\* c.append(string);
Cont_AppendString(c, string) ==
    /\ Running
    /\ conts[c].kind = "String"
    /\ \E p \in Results(Memory, conts[c].allocator) :
          FinishOn(ContCall("append", c), c,
                   AppendString(Memory, conts[c], string, p), Pushed(conts[c]))

\* c.resize(s);
Cont_Resize(c, s) ==
    /\ Running
    /\ conts[c].kind # "none"
    /\ \E p \in Results(Memory, conts[c].allocator) :
          FinishOn(ContCall("resize", c), c, Resize(Memory, conts[c], s, p), -1)

\* c.reserve(s);
Cont_Reserve(c, s) ==
    /\ Running
    /\ conts[c].kind # "none"
    /\ \E p \in Results(Memory, conts[c].allocator) :
          FinishOn(ContCall("reserve", c), c, Reserve(Memory, conts[c], s, p), -1)

\* c.clear();
Cont_Clear(c) ==
    /\ Running
    /\ conts[c].kind # "none"
    /\ FinishOn(ContCall("clear", c), c, Done(Memory, Clear(conts[c])), -1)

\* Array<T> c(s); String c(s);   s being the container variable from
Cont_Copy(c, from) ==
    /\ Running
    /\ conts[c].kind = "none"
    /\ conts[from].kind # "none"
    /\ \E p \in Results(Memory, conts[from].allocator) :
          FinishOn(ContCall("copy", c), c, CopyConstruct(Memory, conts[from], p), -1)

\* Array<T> c(std::move(s)); String c(std::move(s));
Cont_Move(c, from) ==
    /\ Running
    /\ conts[c].kind = "none"
    /\ conts[from].kind # "none"
    /\ Finish(ContCall("move", c), Done(Memory, NoCont),
              [conts EXCEPT ![c] = MoveConstruct(conts[from]).to,
                            ![from] = MoveConstruct(conts[from]).from])

\* c goes out of scope.
Cont_Destroy(c) ==
    /\ Running
    /\ conts[c].kind # "none"
    /\ FinishOn(ContCall("destroy", c), c, Destroy(Memory, conts[c]), -1)

\* c.pop_back();   the caller calls it on a non-empty container
Cont_PopBack(c) ==
    /\ Running
    /\ conts[c].kind = "Array"
    /\ conts[c].count > 0
    /\ FinishOn(ContCall("pop_back", c), c, Done(Memory, PopBack(conts[c])), -1)

\* c[i] = d;
Cont_SetElement(c, i, d) ==
    /\ Running
    /\ conts[c].kind # "none"
    /\ FinishOn(ContCall("set", c), c, SetElement(Memory, conts[c], i, d), -1)

\* c = s;   s being the container variable from (c itself in a self-assignment)
Cont_CopyAssign(c, from) ==
    /\ Running
    /\ conts[c].kind # "none"
    /\ conts[from].kind = conts[c].kind
    /\ \E p \in Results(Memory, conts[from].allocator) :
          Returns([ContCall("copy=", c) EXCEPT !.arg = conts[c].block],
                  CopyAssign(Memory, conts[from], c = from, p),
                  [conts EXCEPT ![c] = CopyAssign(Memory, conts[from], c = from, p).c])

\* c = std::move(s);
Cont_MoveAssign(c, from) ==
    /\ Running
    /\ conts[c].kind # "none"
    /\ conts[from].kind = conts[c].kind
    /\ Finish(ContCall("move=", c), Done(Memory, NoCont),
              [conts EXCEPT ![c] = MoveConstruct(conts[from]).to,
                            ![from] = MoveConstruct(conts[from]).from])

\* SetDefaultAllocator(a);
SetDefaultAllocator(a) ==
    /\ Running
    /\ defaultAllocator' = a
    /\ UNCHANGED << assertsEnabled, aborted, badFree, lin, mem, hstate, issued,
                    afterReset, held, origin, released, scen, conts, last >>

\* ConcatStrings(strings, n, seperator);   strings being the container
\* variables 1 .. n, all of them Strings
Cont_Concat(n, seperator) ==
    /\ Running
    /\ \A c \in 1 .. n : conts[c].kind = "String"
    /\ \E p \in Results(Memory, defaultAllocator) :
          Returns(ContCall("concat", n),
                  ConcatStrings(Memory, [c \in 1 .. n |-> conts[c]], seperator, p),
                  conts)

\* String c = ConcatStrings(SplitString(string, delim).data(), number of parts, delim);
Cont_SplitConcat(c, string, delim) ==
    /\ Running
    /\ conts[c].kind = "none"
    /\ \E null \in BOOLEAN :
          Returns([ContCall("split", c) EXCEPT !.text = string, !.delim = delim],
                  SplitThenConcat(SplitString(Memory, string, delim, defaultAllocator),
                                  delim, null),
                  [conts EXCEPT ![c] = SplitThenConcat(SplitString(Memory, string, delim,
                                                                   defaultAllocator),
                                                       delim, null).c])

\* Array<String> c = SplitString(string, delim);   or the Array<StringView> of
\* SplitStringView, or the result of a line function
Cont_Split(c, fn, string, delim) ==
    /\ Running
    /\ conts[c].kind = "none"
    /\ Returns([ContCall(fn, c) EXCEPT !.text = string, !.delim = delim],
               SplitBy(fn, Memory, string, delim, defaultAllocator),
               [conts EXCEPT ![c] = [SplitBy(fn, Memory, string, delim, defaultAllocator).c
                                        EXCEPT !.pushes = -1]])

\* A call of the file function fn on a file that can be opened (exists) or not,
\* holding the bytes content.
File_Call(fn, exists, content) ==
    /\ Running
    /\ \E p \in Results(Memory, defaultAllocator) :
          LET r == IF fn = "ReadFile"
                   THEN ReadFile(Memory, exists, content, defaultAllocator, p)
                   ELSE IF fn = "WriteFile" THEN WriteFile(Memory, exists)
                   ELSE IF fn = "DoesFileExist" THEN DoesFileExist(Memory, exists)
                   ELSE GetFileSize(Memory, exists, content)
          IN  Returns([ContCall(fn, 0) EXCEPT !.text = content, !.fp = r.fp], r, conts)

\* A call of QuickSort(p, size) on the array a.
Algo_QuickSort(a) ==
    /\ Running
    /\ LET r == QuickSort(a, 0, Len(a))
       IN  Returns([ContCall("QuickSort", 0) EXCEPT !.text = a, !.out = r.a],
                   [fault |-> r.fault, M |-> Memory,
                    c |-> [block |-> NullBlock, count |-> Len(a)]], conts)

\* A call of BinarySearch(p, size, key) on the array a.
Algo_BinarySearch(a, key) ==
    /\ Running
    /\ LET r == BinarySearch(a, Len(a), key)
       IN  Returns([ContCall("BinarySearch", 0) EXCEPT !.text = a, !.delim = key],
                   [fault |-> r.fault, M |-> Memory,
                    c |-> [block |-> NullBlock, count |-> r.ret]], conts)

\* ------------------------------------------------------------- containers on the heap
\* Two container variables and the member functions called on them in any order.
InitCont == InitMemory(ContChunks) /\ InitProcess

NextCont ==
    \/ \E c \in ContIds, kind \in {"Array", "String"} : Cont_Construct(c, kind) /\ UNCHANGED calls
    \/ \E c \in ContIds, string \in Literals : Cont_FromLiteral(c, string) /\ UNCHANGED calls
    \/ \E c \in ContIds : conts[c].count < MaxCount /\ Cont_PushBack(c, PushValue(conts[c])) /\ UNCHANGED calls
    \/ \E c \in ContIds, string \in Literals :
          /\ conts[c].count < MaxCount /\ conts[c].pushes < MaxCount
          /\ Cont_AppendString(c, string) /\ UNCHANGED calls
    \/ \E c \in ContIds : Cont_Resize(c, ContReq) /\ UNCHANGED calls
    \/ \E c \in ContIds : Cont_Reserve(c, ContReq) /\ UNCHANGED calls
    \/ \E c \in ContIds : Cont_Clear(c) /\ UNCHANGED calls
    \/ \E c, from \in ContIds : Cont_Copy(c, from) /\ UNCHANGED calls
    \/ \E c, from \in ContIds : Cont_Move(c, from) /\ UNCHANGED calls
    \/ \E c \in ContIds : Cont_Destroy(c) /\ UNCHANGED calls

SpecCont == InitCont /\ [][NextCont]_vars

\* ------------------------------------------------------------- containers and their allocators
\* Two container variables bound to the heap allocator M1 or the arena L1 as
\* the default allocator stands when they are built; constructed, written,
\* copied, moved, assigned and destroyed in any order.
\* resize(s) with s * sizeof(T), or s + 1, equal to 2^w
HugeSize(kind) == IF kind = "Array" THEN SizeMod \div SizeofT ELSE SizeMod - 1
\* The value the user stores with c[i] = d.
SetValue(kind) == IF kind = "Array" THEN 9 ELSE 98

\* The user makes OwnCalls calls at most.
Tick == calls < OwnCalls /\ calls' = calls + 1

InitOwn ==
    /\ lin = [l \in LinearIds |-> CreateLinearAllocator(l, OwnArena)]
    /\ mem = [r \in ArenaRegions \cup (1 .. OwnChunks) |->
                 IF r \in ArenaRegions THEN Zeros(OwnArena) ELSE << >>]
    /\ hstate = [h \in 1 .. OwnChunks |-> "unused"]
    /\ issued = [l \in LinearIds |-> << >>]
    /\ afterReset = [l \in LinearIds |-> FALSE]
    /\ InitProcess

NextOwn ==
    \/ \E a \in {"M1", "L1"} : Tick /\ SetDefaultAllocator(a)
    \/ \E c \in ContIds, kind \in {"Array", "String"} : Tick /\ Cont_Construct(c, kind)
    \/ \E c \in ContIds : Tick /\ Cont_FromLiteral(c, << 97 >>)
    \/ \E c \in ContIds :
          Tick /\ conts[c].count < OwnCount /\ Cont_PushBack(c, PushValue(conts[c]))
    \/ \E c \in ContIds : Tick /\ Cont_PopBack(c)
    \/ \E c \in ContIds : Tick /\ Cont_SetElement(c, 0, SetValue(conts[c].kind))
    \/ \E c \in ContIds : \E s \in {OwnReq, HugeSize(conts[c].kind)} :
          Tick /\ Cont_Resize(c, s)
    \/ \E c \in ContIds : \E s \in {OwnReq, HugeSize(conts[c].kind)} :
          Tick /\ Cont_Reserve(c, s)
    \/ \E c \in ContIds : Tick /\ Cont_Clear(c)
    \/ \E c, from \in ContIds : Tick /\ Cont_Copy(c, from)
    \/ \E c, from \in ContIds : Tick /\ Cont_CopyAssign(c, from)
    \/ \E c, from \in ContIds : Tick /\ Cont_Move(c, from)
    \/ \E c, from \in ContIds : Tick /\ Cont_MoveAssign(c, from)
    \/ \E c \in ContIds : Tick /\ Cont_Destroy(c)

SpecOwn == InitOwn /\ [][NextOwn]_vars

\* ------------------------------------------------------------- Strings concatenated
\* Two Strings built from the literals "a" and "bc", appended to, resized and
\* cleared, and ConcatStrings called on the first or on both.
TextLiterals == {<< 97 >>, << 98, 99 >>}
Seperators == {0, 44}

NextText ==
    \/ \E c \in ContIds : Tick /\ Cont_Construct(c, "String")
    \/ \E c \in ContIds, string \in TextLiterals : Tick /\ Cont_FromLiteral(c, string)
    \/ \E c \in ContIds :
          Tick /\ conts[c].count < TextCount /\ Cont_PushBack(c, PushValue(conts[c]))
    \/ \E c \in ContIds, string \in TextLiterals :
          Tick /\ conts[c].count < TextCount /\ Cont_AppendString(c, string)
    \/ \E c \in ContIds : Tick /\ Cont_Resize(c, OwnReq)
    \/ \E c \in ContIds : Tick /\ Cont_Clear(c)
    \/ \E n \in ContIds, seperator \in Seperators : Tick /\ Cont_Concat(n, seperator)

SpecText == InitCont /\ [][NextText]_vars

\* ------------------------------------------------------------- Strings split and rejoined
\* The C strings of 'a' and ',' up to SplitLen chars, split at ',' or at 0 and
\* rejoined, the resulting String cleared or destroyed. The heap has the chunks
\* for one split of SplitLen chars: the user splits while malloc has handed
\* out none.
RECURSIVE Texts(_)
Texts(n) ==
    IF n = 0 THEN {<< >>}
    ELSE Texts(n - 1) \cup {Append(t, b) : t \in {u \in Texts(n - 1) : Len(u) = n - 1},
                                           b \in {97, 44}}

InitSplit == InitMemory(SplitChunks) /\ InitProcess

NextSplit ==
    \/ \E c \in ContIds, string \in Texts(SplitLen), delim \in Seperators :
          /\ Tick
          /\ \A h \in DOMAIN hstate : hstate[h] = "unused"
          /\ Cont_SplitConcat(c, string, delim)
    \/ \E c \in ContIds : Tick /\ Cont_Clear(c)
    \/ \E c \in ContIds : Tick /\ Cont_Destroy(c)

SpecSplit == InitSplit /\ [][NextSplit]_vars

\* ------------------------------------------------------------- strings split
\* The C strings of 'a' and ',' up to SplitLen chars split at ',' or at 0 into
\* Strings or views, those of 'a' and '\n' split into lines, and the resulting
\* Array destroyed. The split is the first call the user makes.
NextParts ==
    \/ \E c \in ContIds, fn \in {"SplitString", "SplitStringView"},
           string \in Texts(SplitLen), delim \in Seperators :
          /\ Tick
          /\ calls = 0
          /\ Cont_Split(c, fn, string, delim)
    \/ \E c \in ContIds, fn \in {"SplitStringIntoLines", "SplitStringViewIntoLines"},
           string \in Texts(SplitLen) :
          /\ Tick
          /\ calls = 0
          /\ Cont_Split(c, fn, [i \in DOMAIN string |-> IF string[i] = 44 THEN 10 ELSE 97],
                        10)
    \/ \E c \in ContIds : Tick /\ Cont_Destroy(c)

SpecParts == InitSplit /\ [][NextParts]_vars

\* ------------------------------------------------------------- files read and written
\* The file functions called, FileCalls times at most, on files that are there
\* or not and hold up to FileLen bytes.
NextFiles ==
    \E fn \in {"ReadFile", "WriteFile", "DoesFileExist", "GetFileSize"},
       exists \in BOOLEAN, content \in Texts(FileLen) :
        calls < FileCalls /\ Tick /\ File_Call(fn, exists, content)

SpecFiles == Init /\ [][NextFiles]_vars

\* ------------------------------------------------------------- sorting and searching
\* The arrays of up to n elements drawn from values
Arrays(n, values) == UNION {[1..k -> values] : k \in 0..n}

Ascending(a) == \A k \in 1..(Len(a) - 1) : a[k] <= a[k + 1]

\* One call: QuickSort on an array of up to SortLen elements, or of LongLen
\* elements (beyond the threshold of 12), or BinarySearch on an ascending array
\* of up to SortLen elements.
NextAlgo ==
    \/ calls = 0 /\ \E a \in Arrays(SortLen, 1..3) : Tick /\ Algo_QuickSort(a)
    \/ calls = 0 /\ \E a \in [1..LongLen -> 1..2] : Tick /\ Algo_QuickSort(a)
    \/ calls = 0 /\ \E a \in {b \in Arrays(SortLen, 1..3) : Ascending(b)}, key \in 0..4 :
          Tick /\ Algo_BinarySearch(a, key)

SpecAlgo == Init /\ [][NextAlgo]_vars

\* ------------------------------------------------------------- one Array growing
\* One Array<int>, default-constructed, and push_back, reserve, resize and clear
\* called on it in any order.
InitGrow ==
    /\ InitMemory(GrowChunks)
    /\ InitProcess
    /\ conts[1].kind = "none"

NextGrow ==
    \/ Cont_Construct(1, "Array") /\ UNCHANGED calls
    \/ conts[1].count < MaxPush /\ Cont_PushBack(1, PushValue(conts[1])) /\ UNCHANGED calls
    \/ \E s \in {0, GrowReq} : Cont_Reserve(1, s) /\ UNCHANGED calls
    \/ \E s \in {0, GrowReq} : Cont_Resize(1, s) /\ UNCHANGED calls
    \/ Cont_Clear(1) /\ UNCHANGED calls

SpecGrow == InitGrow /\ [][NextGrow]_vars

\* ------------------------------------------------------------- claims
LastOnLinear == last.alloc \in LinearIds
\* the block handed to the last call was issued by the allocator called, and is
\* the block as it was issued
LastOwn == last.issuer = last.alloc /\ last.exact
\* the block handed to the last call is a non-null block of another allocator
LastForeign == last.arg.data # NULL /\ last.issuer \notin {last.alloc, "none"}

Overlap(b, c) == b.data < c.data + c.size /\ c.data < b.data + b.size

RECURSIVE SumSizes(_)
SumSizes(bs) == IF bs = << >> THEN 0 ELSE Head(bs).size + SumSizes(Tail(bs))

\* C1: round trip. A successful AllocateMemoryBlock(n) of either allocator
\* returns a block of size n whose bytes are all zero, and FreeMemoryBlock on
\* that exact block returns true and leaves the caller's block null.
C1_AllocatorRoundTrip ==
    /\ (last.op = "Allocate" /\ last.ok /\ Running) =>
          /\ last.ret.size = last.bytes
          /\ MemRead(mem, last.ret.data, last.ret.size) = Zeros(last.bytes)
    /\ (last.op = "Free" /\ LastOwn /\ ~last.second) =>
          /\ Running
          /\ last.ok
          /\ held[last.slot] = NullBlock

\* C3: arena monotonicity. The blocks an arena issued since its creation or last
\* reset (those of one byte or more: an empty range overlaps nothing) do not
\* overlap pairwise, and their sizes sum to no more than the capacity.
C3_ArenaMonotonicity ==
    \A l \in LinearIds :
        /\ \A i, j \in 1 .. Len(issued[l]) :
              i # j => ~Overlap(issued[l][i], issued[l][j])
        /\ SumSizes(issued[l]) <= lin[l].arena.size

\* C3 witness: two blocks issued since the last reset fill the arena, with a
\* FreeMemoryBlock in between.
C3_Witness ==
    \E l \in LinearIds :
        /\ Len(issued[l]) >= 2
        /\ SumSizes(issued[l]) = lin[l].arena.size
        /\ last.op = "Allocate" /\ last.alloc = l /\ last.arg = NullBlock
        /\ released[last.slot] = "none"

LastScenarioCall == last.alloc = "L1" /\ last.op \in {"Allocate", "Reset"}

\* C4: arena reset. ResetAllocator leaves offset = 0; the AllocateMemoryBlock of
\* the whole capacity that follows a reset succeeds and returns the whole arena;
\* and the scenario allocate ScenarioReq, allocate ScenarioReq, Reset, allocate
\* capacity goes: success, failure, offset 0, success.
C4_ArenaReset ==
    /\ (last.op = "Reset" /\ LastOnLinear) => lin[last.alloc].offset = 0
    /\ (last.op = "Allocate" /\ LastOnLinear /\ last.fresh
            /\ last.bytes = lin[last.alloc].arena.size) =>
          /\ Running /\ last.ok
          /\ last.ret = lin[last.alloc].arena
          /\ lin[last.alloc].offset = lin[last.alloc].arena.size
    /\ (scen = 1 /\ LastScenarioCall) =>
          last.ok /\ last.ret = [data |-> lin["L1"].arena.data, size |-> ScenarioReq]
    /\ (scen = 2 /\ LastScenarioCall) =>
          ~last.ok /\ last.ret = NullBlock /\ (aborted <=> assertsEnabled)
    /\ (scen = 3 /\ LastScenarioCall) => lin["L1"].offset = 0
    /\ (scen = 4 /\ LastScenarioCall) =>
          last.ok /\ last.ret = lin["L1"].arena

\* C4 witness: the scenario has run to its last call.
C4_Witness == scen = 4 /\ LastScenarioCall /\ last.op = "Allocate" /\ last.fresh

C6_DoubleFreeRejected ==
    (last.op = "Free" /\ last.second) =>
        Running /\ ~last.ok /\ held[last.slot] = NullBlock

\* C7, as stated: FreeMemoryBlock on a non-null block that the allocator called
\* did not issue returns false, does not abort, and leaves the block unchanged.
C7_ForeignRejected ==
    (last.op = "Free" /\ LastForeign) =>
        Running /\ ~last.ok /\ held[last.slot] = last.arg

\* The malloc'ed chunks that have not been freed.
LiveChunks == {h \in DOMAIN hstate : hstate[h] = "live"}
FreedChunks == {h \in DOMAIN hstate : hstate[h] = "freed"}
NoContainerLeft == \A c \in ContIds : conts[c].kind = "none"

\* C2: no leak and no double free. Whatever constructors and member functions
\* are called on containers bound to a MallocAllocator, no call hands free() a
\* chunk that is not live (freed before, or never issued), and once every
\* container has been destroyed no chunk the allocator issued is still live:
\* each has been freed exactly once.
C2_NoLeakNoDoubleFree ==
    /\ last.fault \notin {"free", "undef"}
    /\ (Running /\ NoContainerLeft) => LiveChunks = {}

\* C2 witness: every container has been destroyed after two chunks or more
\* were issued to them, and all chunks issued have been freed.
C2_Witness ==
    /\ Running /\ NoContainerLeft
    /\ Cardinality(FreedChunks) >= 2
    /\ LiveChunks = {}

\* The smallest value of k, 2k, 4k, ... that is >= n.
RECURSIVE SmallestStep(_, _)
SmallestStep(k, n) == IF k >= n THEN k ELSE SmallestStep(2 * k, n)

\* C8: growth doubling. An Array that was constructed empty and has since had N
\* push_back calls (N >= 1) and no other call has count = N and a capacity that
\* is the smallest of 8, 16, 32, ... that is >= N.
C8_GrowthDoubling ==
    \A c \in ContIds :
        (Running /\ conts[c].kind = "Array" /\ conts[c].pushes >= 1) =>
            /\ conts[c].count = conts[c].pushes
            /\ Capacity(conts[c]) = SmallestStep(8, conts[c].pushes)

\* C8 witness: nine push_back calls on an empty Array gave count 9, capacity 16.
C8_Witness ==
    \E c \in ContIds :
        /\ Running /\ conts[c].kind = "Array"
        /\ conts[c].pushes = 9 /\ conts[c].count = 9 /\ Capacity(conts[c]) = 16

\* A push_back on the Array, full (count = capacity) when called, has returned.
FullPushBack ==
    /\ conts[1].kind = "Array"
    /\ conts[1].count = Capacity(conts[1])
    /\ Cont_PushBack(1, PushValue(conts[1]))
    /\ Running'

\* What C9 says of the push_back besides the capacity: the value is stored at
\* index count, count grows by one, the earlier elements are as they were.
PushBackStores ==
    /\ conts'[1].count = conts[1].count + 1
    /\ Elements(Memory', conts'[1], conts'[1].count) =
          Elements(Memory, conts[1], conts[1].count)
              \o ElemBytes("Array", PushValue(conts[1]))

Max(a, b) == IF a >= b THEN a ELSE b

\* C9, as stated: a push_back on an Array with count = capacity grows the
\* capacity to max(8, 2 x count), stores the value at index count, increments
\* count and keeps the earlier elements.
C9_PushBackGrowth ==
    [][FullPushBack =>
          /\ Capacity(conts'[1]) = Max(8, 2 * conts[1].count)
          /\ PushBackStores]_vars

\* C9, amended: a push_back on an Array with count = capacity grows the capacity
\* to 2 x count when count > 0 and to 8 when count = 0, stores the value at index
\* count, increments count and keeps the earlier elements.
C9_PushBackGrowthAmended ==
    [][FullPushBack =>
          /\ Capacity(conts'[1]) = IF conts[1].count > 0 THEN 2 * conts[1].count ELSE 8
          /\ PushBackStores]_vars

\* C9 witness: an Array resized to GrowReq elements, then full, was pushed to:
\* capacity 2 x GrowReq, count GrowReq + 1.
C9_Witness ==
    /\ Running /\ conts[1].kind = "Array"
    /\ Capacity(conts[1]) = 2 * GrowReq
    /\ conts[1].count = GrowReq + 1
    /\ Elements(Memory, conts[1], conts[1].count)[1 + GrowReq * SizeofT] = GrowReq + 1

\* C10: terminator invariant. A String built by a constructor and append calls
\* only, and holding at least one byte, has count < block.size and a zero byte
\* at index count of its block.
C10_Terminator ==
    \A c \in ContIds :
        (Running /\ conts[c].kind = "String" /\ conts[c].pushes >= 0
            /\ conts[c].count >= 1) =>
            /\ conts[c].count < conts[c].block.size
            /\ MemRead(mem, conts[c].block.data + conts[c].count, 1) = << 0 >>

\* C15, as stated: every block returned by AllocateMemoryBlock and every block
\* left in the caller's variable by FreeMemoryBlock has size = 0 exactly when
\* its data is null.
C15_MemoryBlockInvariant ==
    (last.op \in {"Allocate", "Free"} /\ Running) =>
        (last.ret.size = 0 <=> last.ret.data = NULL)

\* A block that lies inside the arena: data in [arena.data, arena.data + capacity)
\* and data + size <= arena.data + capacity.
InsideArena(st, block) ==
    /\ st.arena.data <= block.data
    /\ block.data < st.arena.data + st.arena.size
    /\ block.data + block.size <= st.arena.data + st.arena.size

\* C18, as stated: with offset + bytes computed modulo 2^w, the arena keeps
\* 0 <= offset <= capacity, offset decreases only by ResetAllocator, and every
\* block a successful AllocateMemoryBlock returns lies inside the arena.
C18_ArenaRange ==
    /\ [](\A l \in LinearIds : 0 <= lin[l].offset /\ lin[l].offset <= lin[l].arena.size)
    /\ []((last.op = "Allocate" /\ LastOnLinear /\ last.ok) =>
              InsideArena(lin[last.alloc], last.ret))
    /\ [][\A l \in LinearIds :
              (Running' /\ ~ResetAllocator(l)) => lin'[l].offset >= lin[l].offset]_vars

\* C19, as stated: FreeMemoryBlock of an arena changes neither offset, nor the
\* arena block, nor any byte; it returns true and nulls the caller's block
\* exactly when the block lies inside the arena, and otherwise returns false
\* and leaves the caller's block as it was.
C19_ArenaFreeIsRangeCheck ==
    [][\A l \in LinearIds, s \in Slots :
          FreeMemoryBlock(l, s) =>
              /\ Running'
              /\ lin' = lin /\ mem' = mem
              /\ last'.ok = InsideArena(lin[l], held[s])
              /\ held'[s] = IF InsideArena(lin[l], held[s]) THEN NullBlock ELSE held[s]]_vars

\* C20: fresh zero fill on reuse. Every block a successful AllocateMemoryBlock
\* of an arena returns reads as all zero bytes when it is returned.
C20_FreshZeroFill ==
    (last.op = "Allocate" /\ LastOnLinear /\ last.ok /\ Running) =>
        MemRead(mem, last.ret.data, last.ret.size) = Zeros(last.ret.size)

\* C20 witness: the first AllocateMemoryBlock after a reset returned zeroed
\* bytes of an arena that still holds, behind the block, the pattern written
\* through a block issued before the reset.
C20_Witness ==
    /\ last.op = "Allocate" /\ LastOnLinear /\ last.ok /\ Running /\ last.fresh
    /\ last.ret.size > 0 /\ last.ret.size < lin[last.alloc].arena.size
    /\ last.ret = held[last.slot]
    /\ MemRead(mem, last.ret.data, last.ret.size) = Zeros(last.ret.size)
    /\ mem[ArenaRegion(last.alloc)][last.ret.size + 1] = last.ret.size + 1

\* Containers c and d own the same block: a non-null block that is the same
\* block value or shares bytes with the other.
SameBlock(c, d) ==
    /\ conts[c].block.data # NULL /\ conts[d].block.data # NULL
    /\ conts[c].block = conts[d].block \/ Overlap(conts[c].block, conts[d].block)

\* The first element of container c as a reader of c[0] finds it.
FirstElement(M, c) ==
    IF c.count >= 1 /\ Addressable(M, c.block.data, ElemSize(c.kind))
    THEN MemRead(M.mem, c.block.data, ElemSize(c.kind))
    ELSE << >>

\* The user writes c[0], appends to c or destroys c, and the call returns.
Mutates(c) ==
    /\ \/ Cont_SetElement(c, 0, SetValue(conts[c].kind))
       \/ Cont_PushBack(c, PushValue(conts[c]))
       \/ Cont_Destroy(c)
    /\ Running'

\* The count and the first element of container d are as they were.
Untouched(d) ==
    /\ conts'[d].count = conts[d].count
    /\ FirstElement(Memory', conts'[d]) = FirstElement(Memory, conts[d])

\* C11, as stated: no two live containers own the same block, and writing an
\* element of, appending to, or destroying one container never changes the
\* count or the elements of another.
C11_CopyIndependence ==
    /\ [](\A c, d \in ContIds : (c # d /\ Running) => ~SameBlock(c, d))
    /\ [][\A c, d \in ContIds : (c # d /\ Mutates(c)) => Untouched(d)]_vars

\* B = std::move(A) or B(std::move(A)), A and B being the container variables
\* from and c.
Moves(c, from) == Cont_Move(c, from) \/ Cont_MoveAssign(c, from)

\* A container that has been moved from: the only objects without allocator.
MovedFrom(c) == conts[c].kind # "none" /\ conts[c].allocator = "null"

\* C12: move empties source. After moving container A into another container
\* B, B holds A's former block, count and allocator, A has count 0, a null
\* block and no allocator, and no memory has been touched; and destroying a
\* moved-from container makes no FreeMemoryBlock call: memory stays as it was.
C12_MoveEmptiesSource ==
    /\ [][\A c, from \in ContIds :
              (c # from /\ Moves(c, from)) =>
                  /\ Running'
                  /\ conts'[c].block = conts[from].block
                  /\ conts'[c].count = conts[from].count
                  /\ conts'[c].allocator = conts[from].allocator
                  /\ conts'[from].count = 0
                  /\ conts'[from].block = NullBlock
                  /\ conts'[from].allocator = "null"
                  /\ Memory' = Memory]_vars
    /\ [][\A c \in ContIds :
              (MovedFrom(c) /\ Cont_Destroy(c)) =>
                  Running' /\ conts'[c] = NoCont /\ Memory' = Memory]_vars

\* C12 witness: a container has been moved from, and the other one holds what
\* was moved: a block in live memory with an element in it.
C12_Witness ==
    \E c, from \in ContIds :
        /\ c # from /\ Running /\ MovedFrom(from)
        /\ conts[from].block = NullBlock /\ conts[from].count = 0
        /\ conts[c].allocator # "null" /\ conts[c].count >= 1
        /\ FirstElement(Memory, conts[c]) # << >>

\* C16, as stated: a growable sequence has count <= block.size / sizeof(T) and a
\* byte buffer count <= block.size, whatever was called on it.
C16_CountWithinCapacity ==
    \A c \in ContIds :
        (Running /\ conts[c].kind # "none") => conts[c].count <= Capacity(conts[c])

\* Allocator a issued the block: an arena issues blocks of its arena, a
\* MallocAllocator chunks of the heap.
IssuedBy(a, block) ==
    \/ a \in LinearIds /\ RegionOf(block.data) = ArenaRegion(a)
    \/ a \in MallocIds /\ RegionOf(block.data) \in DOMAIN hstate

\* C17: a container frees through the allocator that issued its block. The
\* non-null block of a container was issued by the allocator the container is
\* bound to, and a container built without an explicit allocator is bound to
\* the default allocator of that moment.
C17_BoundToIssuer ==
    /\ [](\A c \in ContIds :
              (Running /\ conts[c].kind # "none" /\ conts[c].block.data # NULL) =>
                  IssuedBy(conts[c].allocator, conts[c].block))
    /\ [][\A c \in ContIds, kind \in {"Array", "String"} :
              ((Cont_Construct(c, kind) \/ Cont_FromLiteral(c, << 97 >>)) /\ Running') =>
                  conts'[c].allocator = defaultAllocator]_vars

\* C17 witness: two containers own blocks, one issued by the arena and one by
\* the heap allocator, so SetDefaultAllocator was called between their
\* constructions.
C17_Witness ==
    \E c, d \in ContIds :
        /\ Running
        /\ conts[c].block.size > 0 /\ conts[c].allocator \in LinearIds
        /\ conts[d].block.size > 0 /\ conts[d].allocator \in MallocIds
        /\ IssuedBy(conts[c].allocator, conts[c].block)
        /\ IssuedBy(conts[d].allocator, conts[d].block)

\* The bytes a String holds: its size() bytes.
Content(M, c) == Elements(M, c, c.count)

\* The bytes of strings i .. n with seperator between consecutive ones.
RECURSIVE Joined(_, _, _, _)
Joined(M, strings, i, seperator) ==
    IF i > Len(strings) THEN << >>
    ELSE Content(M, strings[i])
             \o (IF seperator # 0 /\ i < Len(strings) THEN << seperator >> ELSE << >>)
             \o Joined(M, strings, i + 1, seperator)

\* The malloc'ed chunks handed out by the step.
NewChunks == {h \in DOMAIN hstate : hstate[h] = "unused" /\ hstate'[h] # "unused"}

\* C13, as stated: ConcatStrings on n >= 1 Strings returns a String whose length
\* is the sum of their size() plus n - 1 for a non-zero seperator, whose bytes
\* are theirs in order with the seperator in between, having made exactly one
\* allocation.
C13_ConcatStrings ==
    [][\A n \in ContIds, seperator \in Seperators :
          Cont_Concat(n, seperator) =>
              /\ Running'
              /\ last'.bytes = Len(Joined(Memory, [c \in 1 .. n |-> conts[c]], 1, seperator))
              /\ MemRead(mem', last'.ret.data, last'.bytes) =
                    Joined(Memory, [c \in 1 .. n |-> conts[c]], 1, seperator)
              /\ Cardinality(NewChunks) = 1]_vars

\* string has no leading, trailing or consecutive occurrence of delim.
Plain(string, delim) ==
    /\ string # << >> => string[1] # delim /\ string[Len(string)] # delim
    /\ \A i \in 1 .. Len(string) - 1 : ~(string[i] = delim /\ string[i + 1] = delim)

\* C14: for a string s with no leading, trailing or consecutive delimiter d,
\* ConcatStrings(SplitString(s, d), number of segments, d), when the calls
\* have returned, has the length and the bytes of s.
C14_SplitRoundTrip ==
    last.op = "split" /\ Running /\ Plain(last.text, last.delim) =>
        /\ last.bytes = Len(last.text)
        /\ MemRead(mem, last.ret.data, last.bytes) = last.text

\* A string of three parts has been split at ',' and rejoined.
C14_Witness ==
    /\ Running
    /\ last.op = "split"
    /\ last.delim = 44
    /\ last.text = << 97, 44, 97, 44, 97 >>
    /\ last.bytes = 5
    /\ hstate[SplitChunks - 1] = "live"

\* C21, as stated: on an Array, reserve(n) with n > capacity returns with
\* capacity n, count and the elements unchanged, the block issued by the bound
\* allocator and the old malloc'ed block freed; reserve(n) with n <= capacity
\* changes neither the container nor the memory.
C21_ReserveContract ==
    [][\A c \in ContIds, n \in {OwnReq, HugeSize("Array")} :
          Cont_Reserve(c, n) /\ conts[c].kind = "Array" /\ Running' =>
              IF n > Capacity(conts[c])
              THEN /\ Capacity(conts'[c]) = n
                   /\ conts'[c].count = conts[c].count
                   /\ conts'[c].allocator = conts[c].allocator
                   /\ IssuedBy(conts[c].allocator, conts'[c].block)
                   /\ conts[c].count <= Capacity(conts[c]) =>
                         Content(Memory, conts[c]) = Content(Memory, conts[c])'
                   /\ \A h \in LiveChunks :
                         Base(h) = conts[c].block.data => hstate'[h] = "freed"
              ELSE /\ conts'[c].block = conts[c].block
                   /\ conts'[c].count = conts[c].count
                   /\ Memory' = Memory]_vars

\* The malloc'ed chunk that block is, if it is one that is live.
ChunkOf(block) == {h \in LiveChunks : block.data = Base(h)}

\* Live chunk h is the block of no container.
Orphaned(h) == \A c \in ContIds : conts[c].block.data # Base(h)

\* The allocator of container s can issue a block of the size of s's block.
HasRoom(s) ==
    s.allocator \in LinearIds => LinearAllocate(lin[s.allocator], s.block.size).ok

\* C22: copy assignment leaks. When c = s returns, c owning a block before, the
\* new block of c has the size of s's block (given that the allocator had the
\* room for it), and the former block of c has not been freed and is the block
\* of no container; a live chunk that no container owns is never freed, so it
\* is still live when all containers have been destroyed.
C22_CopyAssignLeak ==
    [][/\ \A c, from \in ContIds :
             Cont_CopyAssign(c, from) /\ OwnsBlock(conts[c].block) /\ Running' =>
                 /\ HasRoom(conts[from]) => conts'[c].block.size = conts[from].block.size
                 /\ \A h \in ChunkOf(conts[c].block) : hstate'[h] = "live" /\ Orphaned(h)'
       /\ \A h \in LiveChunks : Orphaned(h) /\ Running' => hstate'[h] = "live"]_vars

\* C22 witness: c = s has returned and the chunk c owned before is live and
\* the block of no container.
C22_Witness ==
    /\ Running
    /\ last.op = "copy="
    /\ \E h \in ChunkOf(last.arg) : Orphaned(h)

\* C25, as stated: c = std::move(s) on a container c owning a block, s being
\* another container, releases that block.
C25_MoveAssignReleases ==
    [][\A c, from \in ContIds :
          Cont_MoveAssign(c, from) /\ c # from /\ Running' =>
              \A h \in ChunkOf(conts[c].block) : hstate'[h] = "freed"]_vars

\* C26, as stated: after c = s, the count and the elements of c are those s
\* had before, also when c and s are the same container.
C26_CopyAssignPreserves ==
    [][\A c, from \in ContIds :
          Cont_CopyAssign(c, from) /\ Running'
                  /\ conts[from].count <= Capacity(conts[from]) =>
              /\ conts'[c].count = conts[from].count
              /\ Content(Memory, conts[c])' = Content(Memory, conts[from])]_vars

\* C27, as stated: once the Array<String> that SplitString returned has been
\* destroyed, and the String joined from it too, no buffer is still allocated.
C27_SegmentsReleased == Running /\ NoContainerLeft => LiveChunks = {}

\* The maximal non-empty runs of bytes other than delim in string, in order.
RECURSIVE Runs(_, _, _)
Runs(string, delim, run) ==
    IF string = << >> THEN (IF run = << >> THEN << >> ELSE << run >>)
    ELSE IF Head(string) = delim
    THEN (IF run = << >> THEN << >> ELSE << run >>) \o Runs(Tail(string), delim, << >>)
    ELSE Runs(Tail(string), delim, Append(run, Head(string)))

\* Element i (from 0) of the Array<StringView> c, and the bytes of the C string
\* text it views: none if it does not point into text.
ViewAt(c, i) == MemRead(mem, c.block.data + i * SizeofStringView, SizeofStringView)

Viewed(text, view) ==
    IF view[1] >= TextAt /\ view[1] - TextAt + view[2] <= Len(text)
    THEN SubSeq(text, view[1] - TextAt + 1, view[1] - TextAt + view[2])
    ELSE << >>

\* The segments held by the Array a split function returned into c.
Parts(c, text) ==
    [i \in 1 .. c.count |->
        IF c.kind = "Views" THEN Viewed(text, ViewAt(c, i - 1))
        ELSE Content(Memory, StringAt(Memory, c, i - 1))]

\* C23: SplitString and SplitStringView return, in order, exactly the maximal
\* non-empty runs of bytes other than the delimiter (so no segment is empty or
\* holds the delimiter, and leading, trailing and consecutive delimiters give
\* no segment), each view pointing into the string, and the number of segments
\* pushed is the partsCount reserved.
C23_SplitDropsEmpty ==
    last.op \in {"SplitString", "SplitStringView"} /\ Running =>
        /\ Parts(conts[last.cont], last.text) = Runs(last.text, last.delim, << >>)
        /\ conts[last.cont].count = Capacity(conts[last.cont])

\* C23 witness: a string with a leading, a trailing and consecutive delimiters
\* has been split into two views.
C23_Witness ==
    /\ Running
    /\ last.op = "SplitStringView"
    /\ last.text = << 44, 97, 44, 44, 97 >>
    /\ last.delim = 44
    /\ conts[last.cont].count = 2

\* C28, as stated: the line functions return, in order, the maximal non-empty
\* runs of bytes other than '\n'.
C28_LinesAreLines ==
    last.op \in {"SplitStringIntoLines", "SplitStringViewIntoLines"} /\ Running =>
        Parts(conts[last.cont], last.text) = Runs(last.text, 10, << >>)

\* C24, as stated: when a file function has ended, the handle it opened, if
\* any, has been closed exactly once, and no call was made on it after it was
\* closed.
C24_FileHandleDiscipline ==
    last.op \in {"ReadFile", "WriteFile", "DoesFileExist", "GetFileSize"}
            /\ last.fault \notin {"alloc", "access"} =>
        /\ ~last.fp.misuse
        /\ ~last.fp.null => last.fp.closes = 1 /\ ~last.fp.open

\* C29, as stated: BinarySearch on an ascending array reads only elements of
\* the array and returns an index of the key when the key is in the array and
\* -1 when it is not, the empty array and a key below every element included.
C29_BinarySearch ==
    last.op = "BinarySearch" =>
        /\ last.fault = "none"
        /\ IF \E k \in 1..Len(last.text) : last.text[k] = last.delim
           THEN last.bytes \in 0..(Len(last.text) - 1)
                /\ last.text[last.bytes + 1] = last.delim
           ELSE last.bytes = -1

Occurrences(a, v) == Cardinality({k \in 1..Len(a) : a[k] = v})

\* C30, as stated: after QuickSort(p, size) the array is a permutation of the
\* array handed in, in non-decreasing order, and no element outside the array
\* was accessed.
C30_QuickSortSorts ==
    last.op = "QuickSort" =>
        /\ last.fault = "none"
        /\ Len(last.out) = Len(last.text)
        /\ \A v \in 1..3 : Occurrences(last.out, v) = Occurrences(last.text, v)
        /\ Ascending(last.out)

====
